---------------------------- MODULE Spec2Model ----------------------------
(***************************************************************************)
(* Model of bcbio/isatab/parser.py: the row-oriented study/assay parser    *)
(* (StudyAssayParser) and the record tree that StudyAssayParser.parse      *)
(* assembles.                                                              *)
(*                                                                         *)
(* Python strings are sequences of one-character strings, so that          *)
(* startswith, concatenation, split and str() are computed, not assumed.   *)
(* A tab-separated file is the sequence of its lines, each line the        *)
(* sequence of its cells; line 1 is the raw header row.                    *)
(***************************************************************************)
EXTENDS Integers, Sequences, FiniteSets, TLC

(* ---------------- string literals of the source ---------------- *)
\* StudyAssayParser.__init__: self._col_quals
Performer == <<"P","e","r","f","o","r","m","e","r">>  \* "Performer"
Date == <<"D","a","t","e">>  \* "Date"
Unit == <<"U","n","i","t">>  \* "Unit"
TermAccessionNumber == <<"T","e","r","m"," ","A","c","c","e","s","s","i","o","n"," ","N","u","m","b","e","r">>  \* "Term Accession Number"
TermSourceREF == <<"T","e","r","m"," ","S","o","u","r","c","e"," ","R","E","F">>  \* "Term Source REF"
\* StudyAssayParser.__init__: names of self._col_types
Characteristics == <<"C","h","a","r","a","c","t","e","r","i","s","t","i","c","s">>  \* "Characteristics"
FactorType == <<"F","a","c","t","o","r"," ","T","y","p","e">>  \* "Factor Type"
Comment == <<"C","o","m","m","e","n","t">>  \* "Comment"
Label == <<"L","a","b","e","l">>  \* "Label"
MaterialType == <<"M","a","t","e","r","i","a","l"," ","T","y","p","e">>  \* "Material Type"
FactorValue == <<"F","a","c","t","o","r"," ","V","a","l","u","e">>  \* "Factor Value"
AssayName == <<"A","s","s","a","y"," ","N","a","m","e">>  \* "Assay Name"
ParameterValueTrait == <<"P","a","r","a","m","e","t","e","r"," ","V","a","l","u","e","[","T","r","a","i","t"," ","D","e","f","i","n","i","t","i","o","n"," ","F","i","l","e","]">>  \* "Parameter Value[Trait Definition File]"
SampleName == <<"S","a","m","p","l","e"," ","N","a","m","e">>  \* "Sample Name"
SourceName == <<"S","o","u","r","c","e"," ","N","a","m","e">>  \* "Source Name"
ImageFile == <<"I","m","a","g","e"," ","F","i","l","e">>  \* "Image File"
RawDataFile == <<"R","a","w"," ","D","a","t","a"," ","F","i","l","e">>  \* "Raw Data File"
DerivedDataFile == <<"D","e","r","i","v","e","d"," ","D","a","t","a"," ","F","i","l","e">>  \* "Derived Data File"
AcquisitionParameterDataFile == <<"A","c","q","u","i","s","i","t","i","o","n"," ","P","a","r","a","m","e","t","e","r"," ","D","a","t","a"," ","F","i","l","e">>  \* "Acquisition Parameter Data File"
ExtractName == <<"E","x","t","r","a","c","t"," ","N","a","m","e">>  \* "Extract Name"
LabeledExtractName == <<"L","a","b","e","l","e","d"," ","E","x","t","r","a","c","t"," ","N","a","m","e">>  \* "Labeled Extract Name"
DataTransformationName == <<"D","a","t","a"," ","T","r","a","n","s","f","o","r","m","a","t","i","o","n"," ","N","a","m","e">>  \* "Data Transformation Name"
NormalizationName == <<"N","o","r","m","a","l","i","z","a","t","i","o","n"," ","N","a","m","e">>  \* "Normalization Name"
ProtocolREF == <<"P","r","o","t","o","c","o","l"," ","R","E","F">>  \* "Protocol REF"
\* StudyAssayParser.__init__: keys of self._synonyms
ArrayDataFile == <<"A","r","r","a","y"," ","D","a","t","a"," ","F","i","l","e">>  \* "Array Data File"
FreeInductionDecayDataFile == <<"F","r","e","e"," ","I","n","d","u","c","t","i","o","n"," ","D","e","c","a","y"," ","D","a","t","a"," ","F","i","l","e">>  \* "Free Induction Decay Data File"
DerivedArrayDataFile == <<"D","e","r","i","v","e","d"," ","A","r","r","a","y"," ","D","a","t","a"," ","F","i","l","e">>  \* "Derived Array Data File"
HybridizationAssayName == <<"H","y","b","r","i","d","i","z","a","t","i","o","n"," ","A","s","s","a","y"," ","N","a","m","e">>  \* "Hybridization Assay Name"
DerivedArrayDataMatrixFile == <<"D","e","r","i","v","e","d"," ","A","r","r","a","y"," ","D","a","t","a"," ","M","a","t","r","i","x"," ","F","i","l","e">>  \* "Derived Array Data Matrix File"
RawSpectralDataFile == <<"R","a","w"," ","S","p","e","c","t","r","a","l"," ","D","a","t","a"," ","F","i","l","e">>  \* "Raw Spectral Data File"
DerivedSpectralDataFile == <<"D","e","r","i","v","e","d"," ","S","p","e","c","t","r","a","l"," ","D","a","t","a"," ","F","i","l","e">>  \* "Derived Spectral Data File"
\* StudyAssayParser.parse: the third study anchor
CommentENA_SAMPLE == <<"C","o","m","m","e","n","t","[","E","N","A","_","S","A","M","P","L","E","]">>  \* "Comment[ENA_SAMPLE]"
\* StudyAssayParser._build_node_index: the type it compares with (as spelled there)
AcquisitonParameterDataFile == <<"A","c","q","u","i","s","i","t","o","n"," ","P","a","r","a","m","e","t","e","r"," ","D","a","t","a"," ","F","i","l","e">>  \* "Acquisiton Parameter Data File"
\* StudyAssayParser._build_node_index: key prefixes
source_ == <<"s","o","u","r","c","e","-">>  \* "source-"
sample_ == <<"s","a","m","p","l","e","-">>  \* "sample-"
extract_ == <<"e","x","t","r","a","c","t","-">>  \* "extract-"
rawdatafile_ == <<"r","a","w","d","a","t","a","f","i","l","e","-">>  \* "rawdatafile-"
deriveddatafile_ == <<"d","e","r","i","v","e","d","d","a","t","a","f","i","l","e","-">>  \* "deriveddatafile-"
acquisitionparameterfile_ == <<"a","c","q","u","i","s","i","t","i","o","n","p","a","r","a","m","e","t","e","r","f","i","l","e","-">>  \* "acquisitionparameterfile-"
\* StudyAssayParser._clean_header: the prefix for names that start with a digit
isa_ == <<"i","s","a","_">>  \* "isa_"

\* Python's None, as a value no character sequence equals
None == <<"None">>

\* characters int() accepts in _clean_header
Digits == {"0","1","2","3","4","5","6","7","8","9"}

\* characters the pattern [\W]+ of _collapse_attributes leaves alone
WordChars ==
    Digits \cup {"_"} \cup
    {"a","b","c","d","e","f","g","h","i","j","k","l","m",
     "n","o","p","q","r","s","t","u","v","w","x","y","z"} \cup
    {"A","B","C","D","E","F","G","H","I","J","K","L","M",
     "N","O","P","Q","R","S","T","U","V","W","X","Y","Z"}

(* ---------------- helpers for Python values ---------------- *)
\* the elements of a list
Range(s) == {s[i] : i \in 1..Len(s)}

\* an empty dict
EmptyDict == [k \in {} |-> {}]

\* an expression that returned v
Ok(v) == [raised |-> "", val |-> v]

\* an expression that raised exception e
Raise(e) == [raised |-> e, val |-> <<>>]

\* str.startswith(p)
StartsWith(s, p) == Len(p) <= Len(s) /\ SubSeq(s, 1, Len(p)) = p

\* str.startswith(tuple of names)
StartsWithAny(s, names) == \E p \in names : StartsWith(s, p)

\* str(n) for n >= 0, in decimal
DigitChar(d) ==
    CASE d = 0 -> "0" [] d = 1 -> "1" [] d = 2 -> "2" [] d = 3 -> "3" [] d = 4 -> "4"
      [] d = 5 -> "5" [] d = 6 -> "6" [] d = 7 -> "7" [] d = 8 -> "8" [] d = 9 -> "9"

RECURSIVE IntToStr(_)
IntToStr(n) == IF n < 10 THEN <<DigitChar(n)>> ELSE Append(IntToStr(n \div 10), DigitChar(n % 10))

(* ---------------- module-level helpers: find_lt, find_gt ---------------- *)
\* bisect.bisect_left(a, x) on a sorted list: how many elements are < x
bisect_left(a, x) == Cardinality({j \in 1..Len(a) : a[j] < x})

\* bisect.bisect_right(a, x) on a sorted list: how many elements are <= x
bisect_right(a, x) == Cardinality({j \in 1..Len(a) : a[j] <= x})

\* find_lt without its "if i:" test: Python's a[-1] is the last element
find_lt_unguarded(a, x) ==
    LET i == bisect_left(a, x)
    IN  IF Len(a) = 0 THEN Raise("IndexError")
        ELSE Ok(a[IF i = 0 THEN Len(a) ELSE i])

\* find_lt: rightmost value less than x, or ValueError
find_lt(a, x) ==
    LET i == bisect_left(a, x)
    IN  IF i # 0 THEN Ok(a[i]) ELSE Raise("ValueError")

\* find_gt: leftmost value greater than x, or ValueError
find_gt(a, x) ==
    LET i == bisect_right(a, x)
    IN  IF i # Len(a) THEN Ok(a[i + 1]) ELSE Raise("ValueError")

(* ---------------- StudyAssayParser configuration ---------------- *)
\* self._col_quals
col_quals == {Performer, Date, Unit, TermAccessionNumber, TermSourceREF}

\* self._col_types
col_types ==
    [attribute  |-> {Characteristics, FactorType, Comment, Label, MaterialType,
                     FactorValue, AssayName, ParameterValueTrait},
     node       |-> {SampleName, SourceName, ImageFile, RawDataFile, DerivedDataFile,
                     AcquisitionParameterDataFile},
     node_assay |-> {ExtractName, LabeledExtractName, AssayName, DataTransformationName,
                     NormalizationName},
     processing |-> {ProtocolREF}]

\* The order in which self._col_types.items() yields the categories: the order
\* the dict literal is written in. Only attribute and node_assay hold names that
\* are prefixes of one another, so only their relative order can matter.
ColTypeOrder == <<"attribute", "node", "node_assay", "processing">>

\* self._synonyms
synonyms ==
    (ArrayDataFile :> RawDataFile) @@
    (FreeInductionDecayDataFile :> RawDataFile) @@
    (DerivedArrayDataFile :> DerivedDataFile) @@
    (HybridizationAssayName :> AssayName) @@
    (DerivedArrayDataMatrixFile :> DerivedDataFile) @@
    (RawSpectralDataFile :> RawDataFile) @@
    (DerivedSpectralDataFile :> DerivedDataFile)

\* parse: the anchors passed for a study file
StudyAnchors == <<SourceName, SampleName, CommentENA_SAMPLE>>

\* parse: the anchors passed for an assay file
AssayAnchors ==
    <<SampleName, ExtractName, RawDataFile, DerivedDataFile, ImageFile,
      AcquisitionParameterDataFile, FreeInductionDecayDataFile>>

(* ---------------- StudyAssayParser: header functions ---------------- *)
\* self._synonyms.get(h, h)
swap_synonym(syn, h) == IF h \in DOMAIN syn THEN syn[h] ELSE h

\* _swap_synonyms
swap_synonyms(header) == [i \in 1..Len(header) |-> swap_synonym(synonyms, header[i])]

\* _collapse_header, one column: a qualifier joins the last group, any other
\* column opens a group
collapse_column(out, i, qualifier) ==
    IF qualifier /\ Len(out) > 0 THEN [out EXCEPT ![Len(out)] = Append(@, i)]
    ELSE Append(out, <<i>>)

\* _collapse_header: the groups of column positions (1-based); a qualifier in
\* the first column appends to out[-1] of an empty list, an IndexError
collapse_header(header) ==
    LET F[i \in 0..Len(header)] ==
            IF i = 0 THEN <<>>
            ELSE collapse_column(F[i - 1], i, StartsWithAny(header[i], col_quals))
    IN  IF Len(header) > 0 /\ StartsWithAny(header[1], col_quals)
        THEN Raise("IndexError")
        ELSE Ok(F[Len(header)])

\* the first category, in iteration order, among the positions hits
first_category(hits) ==
    IF hits = {} THEN "None"
    ELSE ColTypeOrder[CHOOSE k \in hits : \A m \in hits : k <= m]

\* _characterize_header, for one representative header h: the first category,
\* in iteration order, one of whose names h starts with; else None
characterize(h) ==
    first_category({k \in 1..Len(ColTypeOrder) : StartsWithAny(h, col_types[ColTypeOrder[k]])})

\* _characterize_header
characterize_header(header, hgroups) ==
    [g \in 1..Len(hgroups) |-> characterize(header[hgroups[g][1]])]

\* _build_node_index: the key of the node of this type and name; a type it does
\* not list falls through to the end of the function, which returns None
build_node_index(type, name) ==
    IF type = SourceName THEN source_ \o name
    ELSE IF type = SampleName THEN sample_ \o name
    ELSE IF type = ExtractName THEN extract_ \o name
    ELSE IF type = RawDataFile THEN rawdatafile_ \o name
    ELSE IF type = DerivedDataFile THEN deriveddatafile_ \o name
    ELSE IF type = AcquisitonParameterDataFile THEN acquisitionparameterfile_ \o name
    ELSE None

\* the part of s after its last "[" (s holds one)
after_last_open(s) ==
    SubSeq(s, 1 + CHOOSE i \in 1..Len(s) : s[i] = "[" /\ \A j \in (i + 1)..Len(s) : s[j] # "[",
           Len(s))

\* _clean_header, its second half: header[0] of an empty name raises
\* IndexError; a leading digit gets the isa_ prefix
clean_digit(h) ==
    IF Len(h) = 0 THEN Raise("IndexError")
    ELSE IF h[1] \in Digits THEN Ok(isa_ \o h)
    ELSE Ok(h)

\* _clean_header: "Name[Real]" becomes "Real"
clean_header(header) ==
    IF \E i \in 1..Len(header) : header[i] = "["
    THEN clean_digit(after_last_open(SelectSeq(header, LAMBDA c : c # "]")))
    ELSE clean_digit(header)

\* re.compile("[\W]+").sub("_", s): each run of non-word characters becomes "_"
sub_nonword(s) ==
    LET F[i \in 0..Len(s)] ==
            IF i = 0 THEN <<>>
            ELSE IF s[i] \in WordChars THEN Append(F[i - 1], s[i])
            ELSE IF i > 1 /\ s[i - 1] \notin WordChars THEN F[i - 1]
            ELSE Append(F[i - 1], "_")
    IN  F[Len(s)]

(* ---------------- StudyAssayParser: the values of a line ---------------- *)
\* a metadata value that is the bare cell string
StrVal(cell) == [tag |-> "str", names |-> <<>>, vals |-> <<cell>>]

\* collections.namedtuple('Attrs', names)(*vals)
Attrs(names, vals) == [tag |-> "Attrs", names |-> names, vals |-> vals]

\* namedtuple rejects a field name that starts with an underscore or occurs
\* twice (the names here are word characters only and never start with a digit)
namedtuple_rejects(names) ==
    \/ \E i \in 1..Len(names) : names[i][1] = "_"
    \/ \E i, j \in 1..Len(names) : i < j /\ names[i] = names[j]

\* _collapse_attributes, one column i of the group: its cleaned name c and its cell
attr_column(prev, c, line, i) ==
    IF prev.raised # "" THEN prev
    ELSE IF c.raised # "" THEN Raise(c.raised)
    ELSE IF i > Len(line) THEN Raise("IndexError")
    ELSE Ok([names |-> Append(prev.val.names, sub_nonword(c.val)),
             vals |-> Append(prev.val.vals, line[i])])

\* _collapse_attributes, its last two lines: the named tuple of names and vals
attrs_tuple(r) ==
    IF r.raised # "" THEN r
    ELSE IF namedtuple_rejects(r.val.names) THEN Raise("ValueError")
    ELSE Ok(Attrs(r.val.names, r.val.vals))

\* _collapse_attributes: the columns of one group as a single named tuple
collapse_attributes(line, header, indexes) ==
    LET F[k \in 0..Len(indexes)] ==
            IF k = 0 THEN Ok([names |-> <<>>, vals |-> <<>>])
            ELSE attr_column(F[k - 1], clean_header(header[indexes[k]]), line, indexes[k])
    IN  attrs_tuple(F[Len(indexes)])

\* out[key].add(val) on a defaultdict(set)
dict_add(out, key, val) ==
    IF key \in DOMAIN out THEN [out EXCEPT ![key] = @ \cup {val}]
    ELSE out @@ (key :> {val})

\* the key _line_by_type would use if it cleaned the header (the call it
\* leaves commented out)
line_key_cleaned(header, col) == clean_header(header[col]).val

\* the key _line_by_type stores a group under: the representative header
line_key(header, col) == header[col]

\* _line_by_type, the value of one group: collapsed, or the cell of its first column
group_value(line, header, group, collapse) ==
    IF collapse THEN collapse_attributes(line, header, group)
    ELSE IF group[1] > Len(line) THEN Raise("IndexError")
    ELSE Ok(StrVal(line[group[1]]))

\* _line_by_type, one group: out[key].add(val) if the group is of the wanted type
add_group(prev, wanted, key, v) ==
    IF prev.raised # "" \/ ~wanted THEN prev
    ELSE IF v.raised # "" THEN Raise(v.raised)
    ELSE Ok(dict_add(prev.val, key, v.val))

\* _line_by_type: add the value of every group of type want_type to out
line_by_type(line, header, hgroups, htypes, out, want_type, collapse) ==
    LET F[g \in 0..Len(hgroups)] ==
            IF g = 0 THEN out
            ELSE add_group(F[g - 1], htypes[g] = want_type,
                           line_key(header, hgroups[g][1]),
                           group_value(line, header, hgroups[g], collapse))
    IN  F[Len(hgroups)]

\* _line_keyvals: node groups verbatim, attribute and processing groups
\* collapsed; out is passed on from call to call, an exception ends the chain
line_keyvals(line, header, hgroups, htypes, out) ==
    line_by_type(line, header, hgroups, htypes,
        line_by_type(line, header, hgroups, htypes,
            line_by_type(line, header, hgroups, htypes, Ok(out), "node", FALSE),
            "attribute", TRUE),
        "processing", TRUE)

(* ---------------- the inputs: files and investigation records ---------------- *)
\* most data rows of a generated file
MaxRows == 2

\* most rows of a file of the long family
MaxLong == 11

\* most studies of a generated multi-study investigation
MaxStudies == 2

\* rows of a file of the cross family
CrossRows == 3

\* cell values
Empty == <<>>

NameA == <<"a">>

NameB == <<"b">>

CellP == <<"P">>

CellP1 == <<"P","1">>

Cell5 == <<"5">>

Cell6 == <<"6">>

CellYears == <<"y","e","a","r","s">>

\* headers with a bracketed name
FactorValueAge == FactorValue \o <<"[","A","g","e","]">>

CharacteristicsUnit == Characteristics \o <<"[","U","n","i","t","]">>

\* the cleaned name of FactorValueAge
Age == <<"A","g","e">>

\* a file that exists, with these lines (line 1 is the raw header row)
File(lines) == [exists |-> TRUE, lines |-> lines]

\* a file name that resolves to nothing on disk
NoFile == [exists |-> FALSE, lines |-> <<>>]

\* A family of files: one raw header row, the cell values each column may
\* take, and rows shorter than the header that may occur as well.
Family(hdr, cols, short) == [hdr |-> hdr, cols |-> cols, short |-> short]

\* the rows of a family
RowsOf(fam) ==
    {r \in [1..Len(fam.cols) -> UNION Range(fam.cols)] :
        \A i \in 1..Len(fam.cols) : r[i] \in fam.cols[i]} \cup fam.short

\* the files of a family with at most n data rows
FilesOf(fam, n) ==
    {File(<<fam.hdr>> \o rows) : rows \in UNION {[1..k -> RowsOf(fam)] : k \in 0..n}}

Names == {Empty, NameA, NameB}

AB == {NameA, NameB}

StudyFamilies ==
    {Family(<<SourceName, ProtocolREF, SampleName>>, <<Names, {CellP}, Names>>, {}),
     Family(<<SampleName, FactorValueAge, Unit>>, <<AB, {Cell5, Cell6}, {CellYears}>>,
            {<<>>, <<NameA>>}),
     Family(<<SourceName, CommentENA_SAMPLE>>, <<AB, AB>>, {}),
     Family(<<ProtocolREF, SampleName>>, <<{CellP}, AB>>, {}),
     Family(<<SourceName, ProtocolREF>>, <<AB, {CellP}>>, {}),
     Family(<<SourceName, ProtocolREF, ExtractName>>, <<{Empty, NameA}, {CellP}, {NameA}>>,
            {<<Empty>>}),
     Family(<<SampleName, CharacteristicsUnit, Unit>>, <<{NameA}, {Cell5}, {CellYears}>>, {}),
     Family(<<Unit, SampleName>>, <<{CellYears}, {NameA}>>, {})}

AssayFamilies ==
    {Family(<<SampleName, ProtocolREF, ExtractName, ProtocolREF, RawDataFile>>,
            <<AB, {CellP}, AB, {CellP}, AB>>, {}),
     Family(<<SampleName, ProtocolREF, ExtractName, ProtocolREF>>,
            <<AB, {CellP}, AB, {CellP}>>, {}),
     Family(<<SampleName, ProtocolREF, ImageFile, AcquisitionParameterDataFile>>,
            <<{NameA}, {CellP}, AB, AB>>, {}),
     Family(<<SampleName, ArrayDataFile>>, <<AB, Names>>, {})}

\* the fan-in/fan-out file: (S1,P1,D1), (S1,P1,D2), (S2,P1,D2)
FanFile ==
    File(<<<<SourceName, ProtocolREF, SampleName>>,
           <<NameA, CellP1, NameA>>, <<NameA, CellP1, NameB>>, <<NameB, CellP1, NameB>>>>)

\* the long family: n rows, each with an input and an output of its own; the
\* processing cell is first on the first row and rest on the others
LongFile(first, rest, n) ==
    File(<<<<SourceName, ProtocolREF, SampleName>>>> \o
         [k \in 1..n |-> <<<<"s">> \o IntToStr(k),
                           IF k = 1 THEN first ELSE rest,
                           <<"d">> \o IntToStr(k)>>])

LongFiles == {LongFile(f, CellP, n) : f \in {CellP, CellP1}, n \in 1..MaxLong}

\* the fan-out family: n rows that all have the input s1, each with an output
\* of its own, so that every row joins the process node of the first; with
\* blanks, every second row has neither an input nor an output
FanOutFile(n, blanks) ==
    File(<<<<SourceName, ProtocolREF, SampleName>>>> \o
         [k \in 1..n |-> IF blanks /\ k % 2 = 0
                         THEN <<Empty, CellP, Empty>>
                         ELSE <<<<"s", "1">>, CellP, <<"d">> \o IntToStr(k)>>])

FanOutFiles == {FanOutFile(n, b) : n \in 1..MaxLong, b \in BOOLEAN}

\* the cross family: CrossRows rows whose inputs and outputs are drawn from
\* the same two names, so that a row can have the input of one earlier row
\* and the output of another
CrossFiles ==
    {File(<<<<SourceName, ProtocolREF, SampleName>>>> \o
          [k \in 1..CrossRows |-> <<i[k], CellP, o[k]>>]) :
        i \in [1..CrossRows -> AB], o \in [1..CrossRows -> AB]}

\* an existing file with no line at all
ZeroFile == File(<<>>)

WideStudyFiles ==
    UNION {FilesOf(fam, MaxRows) : fam \in StudyFamilies} \cup LongFiles \cup FanOutFiles \cup CrossFiles
        \cup {FanFile, ZeroFile}

\* a header cell that starts with no name of self._col_types or self._col_quals
Note == <<"N","o","t","e">>  \* "Note"

\* the typing family: assay files with one data row whose second column is
\* headed by a name of self._col_types, or by no such name
TypingFiles ==
    {File(<<<<SampleName, h>>, <<NameA, NameB>>>>) :
        h \in col_types.attribute \cup col_types.node \cup col_types.node_assay
              \cup col_types.processing \cup {Note}}

WideAssayFiles ==
    UNION {FilesOf(fam, MaxRows) : fam \in AssayFamilies} \cup TypingFiles \cup {NoFile}

\* a study file that yields nodes, for the studies that own the assays above
PlainStudyFile == File(<<<<SourceName, SampleName>>, <<NameA, NameB>>>>)

\* a study file with a header row only: it yields an empty node map
HeaderOnlyFile == File(<<<<SourceName, SampleName>>>>)

\* an assay file that yields nodes
PlainAssayFile == File(<<<<SampleName, RawDataFile>>, <<NameB, NameA>>>>)

\* a study of the investigation record: its file and the files of its assays
Study(f, assays) == [file |-> f, assays |-> assays]

SmallStudies ==
    {Study(f, as) : f \in {NoFile, HeaderOnlyFile, PlainStudyFile},
                    as \in {<<>>, <<NoFile>>, <<PlainAssayFile>>, <<NoFile, PlainAssayFile>>}}

\* the investigation records the parser is run on
Records ==
    {<<Study(f, <<>>)>> : f \in WideStudyFiles} \cup
    {<<Study(PlainStudyFile, <<f>>)>> : f \in WideAssayFiles} \cup
    UNION {[1..k -> SmallStudies] : k \in 0..MaxStudies}

(* ---------------- the state ---------------- *)
VARIABLES
    studies,              \* rec.studies as parse receives it (never changed here)
    pc,                   \* where the parser is
    raised,               \* the exception that ended parse, "" if none
    si,                   \* parse: position of `study` in rec.studies
    ai,                   \* parse: position of `assay` in study.assays
    target,               \* whose file is being read: "study" or "assay"
    final_studies,        \* parse: final_studies, then rec.studies
    final_assays,         \* parse: final_assays, then study.assays
    study_nodes,          \* study.nodes
    study_process_nodes,  \* study.process_nodes
    assay_nodes,          \* cur_assay.nodes
    assay_process_nodes,  \* cur_assay.process_nodes
    header,               \* _parse_study / _get_process_nodes: header(s)
    hgroups,              \* hgroups
    htypes,               \* htypes
    ti,                   \* _parse_study: position of node_type in node_types
    name_index,           \* _parse_study: name_index (1-based)
    pos,                  \* the next line the reader yields (position of in_handle)
    nodes,                \* _parse_study: nodes
    source_data,          \* what _parse_study returned
    pi,                   \* _get_process_nodes: position of processing_index
    input_index,          \* _get_process_nodes: input_index (1-based)
    output_index,         \* _get_process_nodes: output_index (1-based)
    scan,                 \* _get_process_nodes: line_number, max_number, process_number,
                          \* input_process_map, output_process_map
    process_nodes         \* _get_process_nodes: process_nodes

vars ==
    <<studies, pc, raised, si, ai, target, final_studies, final_assays, study_nodes,
      study_process_nodes, assay_nodes, assay_process_nodes, header, hgroups, htypes, ti,
      name_index, pos, nodes, source_data, pi, input_index, output_index, scan,
      process_nodes>>

orchVars ==
    <<si, ai, target, final_studies, final_assays, study_nodes, study_process_nodes,
      assay_nodes, assay_process_nodes>>

nodeVars == <<ti, name_index, nodes, source_data>>

procVars == <<pi, input_index, output_index, scan, process_nodes>>

\* a dict returned by _parse_study
Dict(d) == [none |-> FALSE, map |-> d]

\* None returned by _parse_study
NoneResult == [none |-> TRUE, map |-> EmptyDict]

\* the locals _get_process_nodes sets before reading the rows of one processing group
ScanStart ==
    [line_number |-> 0, max_number |-> 0, process_number |-> 1,
     input_process_map |-> EmptyDict, output_process_map |-> EmptyDict]

\* the file being read, and the anchors _parse_study is given for it
CurFile ==
    IF target = "study" THEN studies[si].file ELSE studies[si].assays[ai]

NodeTypes == IF target = "study" THEN StudyAnchors ELSE AssayAnchors

\* list.index
IndexOf(s, x) == CHOOSE i \in 1..Len(s) : s[i] = x /\ \A j \in 1..(i - 1) : s[j] # x

Init ==
    /\ studies \in Records
    /\ pc = "study_loop"
    /\ raised = ""
    /\ si = 1
    /\ ai = 1
    /\ target = "study"
    /\ final_studies = <<>>
    /\ final_assays = <<>>
    /\ study_nodes = Dict(EmptyDict)
    /\ study_process_nodes = EmptyDict
    /\ assay_nodes = Dict(EmptyDict)
    /\ assay_process_nodes = EmptyDict
    /\ header = <<>>
    /\ hgroups = <<>>
    /\ htypes = <<>>
    /\ ti = 1
    /\ name_index = 1
    /\ pos = 1
    /\ nodes = EmptyDict
    /\ source_data = NoneResult
    /\ pi = 1
    /\ input_index = 1
    /\ output_index = 1
    /\ scan = ScanStart
    /\ process_nodes = EmptyDict

(* ---------------- _parse_study: one line under one anchor ---------------- *)
\* NodeRecord(name, node_type) with its metadata
NodeRecord(name, ntype, metadata) == [name |-> name, ntype |-> ntype, metadata |-> metadata]

\* _parse_study, a line whose name passed the guards: the node is created and
\* filled from this line unless its key is in the dict already
node_for(nds, name, node_type, node_index, attrs) ==
    IF node_index \in DOMAIN nds THEN Ok(nds)
    ELSE IF attrs.raised # "" THEN Raise(attrs.raised)
    ELSE Ok(nds @@ (node_index :> NodeRecord(name, node_type, attrs.val)))

\* _parse_study, the guards on a line's name: a header string and an empty
\* name are skipped
node_named(nds, name, node_type, hdr, attrs) ==
    IF name \in Range(hdr) THEN Ok(nds)
    ELSE IF name = <<>> THEN Ok(nds)
    ELSE node_for(nds, name, node_type, build_node_index(node_type, name), attrs)

\* The body of "for line in reader" in _parse_study: the nodes dict after the
\* line, or the exception the line raises. line[i] of a line with fewer than i
\* cells raises IndexError.
node_line(nds, line, node_type, nidx, hdr, groups, types) ==
    IF nidx > Len(line) THEN Raise("IndexError")
    ELSE node_named(nds, line[nidx], node_type, hdr,
                    line_keyvals(line, hdr, groups, types, EmptyDict))

\* list(val) of a set: its elements in an order Python does not specify; no
\* definition below reads the order
SetToList(S) == CHOOSE s \in [1..Cardinality(S) -> S] : Range(s) = S

\* _finalize_metadata, on every node of the dict
finalize_metadata(nds) ==
    [k \in DOMAIN nds |->
        LET md == nds[k].metadata
        IN  NodeRecord(nds[k].name, nds[k].ntype, [h \in DOMAIN md |-> SetToList(md[h])])]

(* ---------------- _get_process_nodes: one line of one processing group ---------------- *)
\* ProcessNodeRecord(name, ntype, study); the back reference to the owner is left out
ProcessNodeRecord(name, ntype) ==
    [name |-> name, ntype |-> ntype, inputs |-> <<>>, outputs |-> <<>>]

\* the positions of the groups whose type is in T, ascending
indices_of(types, T) ==
    LET F[i \in 0..Len(types)] ==
            IF i = 0 THEN <<>>
            ELSE IF types[i] \in T THEN Append(F[i - 1], i) ELSE F[i - 1]
    IN  F[Len(types)]

processing_indices(types) == indices_of(types, {"processing"})

node_indices(types) == indices_of(types, {"node", "node_assay"})

\* d[k] = v
dict_set(d, k, v) == IF k \in DOMAIN d THEN [d EXCEPT ![k] = v] ELSE d @@ (k :> v)

\* list.append(x) without the membership test
append_always(s, x) == Append(s, x)

\* list.append(x) unless x is in the list
append_new(s, x) == IF x \in Range(s) THEN s ELSE Append(s, x)

\* the sum of two numbers, as if max_number counted inputs and outputs together
total(a, b) == a + b

\* the larger of two numbers
max(a, b) == IF a >= b THEN a ELSE b

\* the name a line's process gets when neither its input nor its output was
\* seen before: the processing cell followed by the process number
minted_name(processing_name, process_number) == processing_name \o IntToStr(process_number)

\* process_nodes[unique_process_name], or a new ProcessNodeRecord
process_node_for(pnodes, unique_process_name, ntype) ==
    IF unique_process_name \in DOMAIN pnodes THEN pnodes[unique_process_name]
    ELSE ProcessNodeRecord(unique_process_name, ntype)

\* _get_process_nodes, the end of a line's work: the identities are appended to
\* the node, both maps and the counters are updated, the node is stored
attach(sc, pnodes, unique_process_name, created, node, input_node_index, output_node_index) ==
    [scan |->
        [line_number |-> sc.line_number + 1,
         max_number |-> max(Len(node.inputs), Len(node.outputs)),
         process_number |-> IF created THEN sc.process_number + 1 ELSE sc.process_number,
         input_process_map |->
            dict_set(sc.input_process_map, input_node_index, unique_process_name),
         output_process_map |->
            dict_set(sc.output_process_map, output_node_index, unique_process_name)],
     process_nodes |-> dict_set(pnodes, unique_process_name, node)]

\* the process node with the two identities appended where they are new
with_identities(node, input_node_index, output_node_index) ==
    [node EXCEPT !.inputs = append_new(@, input_node_index),
                 !.outputs = append_new(@, output_node_index)]

\* _get_process_nodes, a line once its process name is known
proc_named(sc, pnodes, unique_process_name, ntype, input_node_index, output_node_index) ==
    attach(sc, pnodes, unique_process_name, unique_process_name \notin DOMAIN pnodes,
           with_identities(process_node_for(pnodes, unique_process_name, ntype),
                           input_node_index, output_node_index),
           input_node_index, output_node_index)

\* _get_process_nodes, the name of a line's process: the one its input has,
\* else the one its output has, else a minted one (line[pcol] is read only then)
proc_identified(sc, pnodes, line, pcol, ntype, input_node_index, output_node_index) ==
    IF input_node_index \in DOMAIN sc.input_process_map
    THEN Ok(proc_named(sc, pnodes, sc.input_process_map[input_node_index], ntype,
                       input_node_index, output_node_index))
    ELSE IF output_node_index \in DOMAIN sc.output_process_map
    THEN Ok(proc_named(sc, pnodes, sc.output_process_map[output_node_index], ntype,
                       input_node_index, output_node_index))
    ELSE IF pcol > Len(line) THEN Raise("IndexError")
    ELSE Ok(proc_named(sc, pnodes, minted_name(line[pcol], sc.process_number), ntype,
                       input_node_index, output_node_index))

\* _get_process_nodes, a line that passed the line_number test: its two cells
\* are read; a line with both empty is passed over
proc_cells(sc, pnodes, line, icol, ocol, pcol, hdr) ==
    IF icol > Len(line) \/ ocol > Len(line) THEN Raise("IndexError")
    ELSE IF line[icol] = <<>> /\ line[ocol] = <<>>
    THEN Ok([scan |-> sc, process_nodes |-> pnodes])
    ELSE proc_identified(sc, pnodes, line, pcol, hdr[pcol],
                         build_node_index(hdr[icol], line[icol]),
                         build_node_index(hdr[ocol], line[ocol]))

\* the test that guards the body of the loop over the lines
line_number_test(sc) == sc.line_number >= sc.max_number

\* The body of "for line in reader" in _get_process_nodes: the scan locals and
\* process_nodes after the line, or the exception it raises.
proc_line(sc, pnodes, line, in_idx, out_idx, proc_idx, hdr, groups) ==
    IF line_number_test(sc)
    THEN proc_cells(sc, pnodes, line, groups[in_idx][1], groups[out_idx][1],
                    groups[proc_idx][1], hdr)
    ELSE Ok([scan |-> [sc EXCEPT !.line_number = @ + 1], process_nodes |-> pnodes])

(* ---------------- the steps of parse ---------------- *)
\* an exception leaves parse
Throw(e) ==
    /\ pc' = "raised"
    /\ raised' = e

\* parse without its "if source_data:" test: every study goes on
always_true(d) == TRUE

\* "if source_data:" in parse: neither None nor an empty dict
truthy(d) == ~d.none /\ DOMAIN d.map # {}

\* for study in rec.studies: the next study, as the investigation parser built it
StudyNext ==
    /\ pc = "study_loop"
    /\ si <= Len(studies)
    /\ target' = "study"
    /\ study_nodes' = Dict(EmptyDict)
    /\ study_process_nodes' = EmptyDict
    /\ pc' = "parse_study"
    /\ UNCHANGED <<studies, raised, si, ai, final_studies, final_assays, assay_nodes,
                   assay_process_nodes, header, hgroups, htypes, pos>>
    /\ UNCHANGED <<nodeVars, procVars>>

\* rec.studies = final_studies; return rec
ParseReturn ==
    /\ pc = "study_loop"
    /\ si > Len(studies)
    /\ pc' = "done"
    /\ UNCHANGED <<studies, raised, header, hgroups, htypes, pos>>
    /\ UNCHANGED <<orchVars, nodeVars, procVars>>

\* _parse_study: the file does not exist
ParseStudyMissing ==
    /\ pc = "parse_study"
    /\ ~CurFile.exists
    /\ source_data' = NoneResult
    /\ pc' = "parsed"
    /\ UNCHANGED <<studies, raised, header, hgroups, htypes, pos, ti, name_index, nodes>>
    /\ UNCHANGED <<orchVars, procVars>>

\* the header row as both functions see it: headers, hgroups, htypes
classified(h, g) ==
    [raised |-> g.raised, header |-> h,
     hgroups |-> g.val,
     htypes |-> IF g.raised = "" THEN characterize_header(h, g.val) ELSE <<>>]

with_groups(h) == classified(h, collapse_header(h))

\* next(reader) on a file without lines raises StopIteration; else the header
\* row is normalized, grouped and typed
read_header(lines) ==
    IF Len(lines) = 0
    THEN [raised |-> "StopIteration", header |-> <<>>, hgroups |-> <<>>, htypes |-> <<>>]
    ELSE with_groups(swap_synonyms(lines[1]))

\* _parse_study, after the header was read
ParseStudyOpened(o) ==
    IF o.raised # ""
    THEN Throw(o.raised) /\ UNCHANGED <<header, hgroups, htypes, pos, ti, nodes>>
    ELSE /\ header' = o.header
         /\ hgroups' = o.hgroups
         /\ htypes' = o.htypes
         /\ pos' = 2
         /\ ti' = 1
         /\ nodes' = EmptyDict
         /\ pc' = "anchors"
         /\ UNCHANGED raised

\* _parse_study: open the file, read and classify the header row
ParseStudyOpen ==
    /\ pc = "parse_study"
    /\ CurFile.exists
    /\ ParseStudyOpened(read_header(CurFile.lines))
    /\ UNCHANGED <<studies, name_index, source_data>>
    /\ UNCHANGED <<orchVars, procVars>>

\* for node_type in node_types: the header does not hold this anchor
AnchorAbsent ==
    /\ pc = "anchors"
    /\ ti <= Len(NodeTypes)
    /\ NodeTypes[ti] \notin Range(header)
    /\ ti' = ti + 1
    /\ UNCHANGED <<studies, pc, raised, header, hgroups, htypes, pos, name_index, nodes,
                   source_data>>
    /\ UNCHANGED <<orchVars, procVars>>

\* for node_type in node_types: the anchor's column is found; in_handle.seek(0, 0)
AnchorSeek ==
    /\ pc = "anchors"
    /\ ti <= Len(NodeTypes)
    /\ NodeTypes[ti] \in Range(header)
    /\ name_index' = IndexOf(header, NodeTypes[ti])
    /\ pos' = 1
    /\ pc' = "rows"
    /\ UNCHANGED <<studies, raised, header, hgroups, htypes, ti, nodes, source_data>>
    /\ UNCHANGED <<orchVars, procVars>>

\* _parse_study, after a line: the dict is kept, or the exception leaves parse
NodeRowDone(r) ==
    IF r.raised # ""
    THEN Throw(r.raised) /\ UNCHANGED <<nodes, pos>>
    ELSE /\ nodes' = r.val
         /\ pos' = pos + 1
         /\ UNCHANGED <<pc, raised>>

\* for line in reader: one line of the file under the current anchor
NodeRow ==
    /\ pc = "rows"
    /\ pos <= Len(CurFile.lines)
    /\ NodeRowDone(node_line(nodes, CurFile.lines[pos], NodeTypes[ti], name_index,
                             header, hgroups, htypes))
    /\ UNCHANGED <<studies, header, hgroups, htypes, ti, name_index, source_data>>
    /\ UNCHANGED <<orchVars, procVars>>

\* for line in reader: the file is at its end; on to the next anchor
NodeRowsEnd ==
    /\ pc = "rows"
    /\ pos > Len(CurFile.lines)
    /\ ti' = ti + 1
    /\ pc' = "anchors"
    /\ UNCHANGED <<studies, raised, header, hgroups, htypes, pos, name_index, nodes,
                   source_data>>
    /\ UNCHANGED <<orchVars, procVars>>

\* _parse_study: return the dict of finalized nodes
ParseStudyReturn ==
    /\ pc = "anchors"
    /\ ti > Len(NodeTypes)
    /\ source_data' = Dict(finalize_metadata(nodes))
    /\ pc' = "parsed"
    /\ UNCHANGED <<studies, raised, header, hgroups, htypes, pos, ti, name_index, nodes>>
    /\ UNCHANGED <<orchVars, procVars>>

\* parse: "if source_data:" for a study; a study without nodes is passed over
StudyParsed ==
    /\ pc = "parsed"
    /\ target = "study"
    /\ IF truthy(source_data)
       THEN /\ study_nodes' = source_data
            /\ final_assays' = <<>>
            /\ ai' = 1
            /\ pc' = "assay_loop"
            /\ UNCHANGED si
       ELSE /\ si' = si + 1
            /\ pc' = "study_loop"
            /\ UNCHANGED <<study_nodes, final_assays, ai>>
    /\ UNCHANGED <<studies, raised, target, final_studies, study_process_nodes, assay_nodes,
                   assay_process_nodes, header, hgroups, htypes, pos>>
    /\ UNCHANGED <<nodeVars, procVars>>

\* parse: cur_assay.nodes = assay_data, then _get_process_nodes on the assay file
AssayParsed ==
    /\ pc = "parsed"
    /\ target = "assay"
    /\ assay_nodes' = source_data
    /\ pc' = "get_process_nodes"
    /\ UNCHANGED <<studies, raised, si, ai, target, final_studies, final_assays, study_nodes,
                   study_process_nodes, assay_process_nodes, header, hgroups, htypes, pos>>
    /\ UNCHANGED <<nodeVars, procVars>>

\* for assay in study.assays: cur_assay = ISATabAssayRecord(assay)
AssayNext ==
    /\ pc = "assay_loop"
    /\ ai <= Len(studies[si].assays)
    /\ assay_nodes' = Dict(EmptyDict)
    /\ assay_process_nodes' = EmptyDict
    /\ target' = "assay"
    /\ pc' = "parse_study"
    /\ UNCHANGED <<studies, raised, si, ai, final_studies, final_assays, study_nodes,
                   study_process_nodes, header, hgroups, htypes, pos>>
    /\ UNCHANGED <<nodeVars, procVars>>

\* study.assays = final_assays, then _get_process_nodes on the study file
AssaysEnd ==
    /\ pc = "assay_loop"
    /\ ai > Len(studies[si].assays)
    /\ target' = "study"
    /\ pc' = "get_process_nodes"
    /\ UNCHANGED <<studies, raised, si, ai, final_studies, final_assays, study_nodes,
                   study_process_nodes, assay_nodes, assay_process_nodes, header, hgroups,
                   htypes, pos>>
    /\ UNCHANGED <<nodeVars, procVars>>

\* _get_process_nodes: the file does not exist
GetProcessNodesMissing ==
    /\ pc = "get_process_nodes"
    /\ ~CurFile.exists
    /\ pc' = "processed"
    /\ UNCHANGED <<studies, raised, header, hgroups, htypes, pos>>
    /\ UNCHANGED <<orchVars, nodeVars, procVars>>

\* _get_process_nodes, after the header was read
GetProcessNodesOpened(o) ==
    IF o.raised # ""
    THEN Throw(o.raised) /\ UNCHANGED <<header, hgroups, htypes, pos, pi, process_nodes>>
    ELSE /\ header' = o.header
         /\ hgroups' = o.hgroups
         /\ htypes' = o.htypes
         /\ pos' = 2
         /\ pi' = 1
         /\ process_nodes' = EmptyDict
         /\ pc' = "groups"
         /\ UNCHANGED raised

\* _get_process_nodes: open the file, read and classify the header row
GetProcessNodesOpen ==
    /\ pc = "get_process_nodes"
    /\ CurFile.exists
    /\ GetProcessNodesOpened(read_header(CurFile.lines))
    /\ UNCHANGED <<studies, input_index, output_index, scan>>
    /\ UNCHANGED <<orchVars, nodeVars>>

\* the neighbours of the current processing group among the node groups
input_neighbour == find_lt(node_indices(htypes), processing_indices(htypes)[pi])

output_neighbour == find_gt(node_indices(htypes), processing_indices(htypes)[pi])

\* find_lt or find_gt raised ValueError
neighbour_missing == input_neighbour.raised # "" \/ output_neighbour.raised # ""

\* for processing_index in processing_indices: except ValueError: break
ProcGroupBreak ==
    /\ pc = "groups"
    /\ pi <= Len(processing_indices(htypes))
    /\ neighbour_missing
    /\ pc' = "processed"
    /\ UNCHANGED <<studies, raised, header, hgroups, htypes, pos>>
    /\ UNCHANGED <<orchVars, nodeVars, procVars>>

\* for processing_index in processing_indices: both neighbours found; set the
\* locals of the scan (the reader is the one opened with the file)
ProcGroupStart ==
    /\ pc = "groups"
    /\ pi <= Len(processing_indices(htypes))
    /\ ~neighbour_missing
    /\ input_index' = input_neighbour.val
    /\ output_index' = output_neighbour.val
    /\ scan' = ScanStart
    /\ pc' = "proc_rows"
    /\ UNCHANGED <<studies, raised, header, hgroups, htypes, pos, pi, process_nodes>>
    /\ UNCHANGED <<orchVars, nodeVars>>

\* _get_process_nodes, after a line
ProcRowDone(r) ==
    IF r.raised # ""
    THEN Throw(r.raised) /\ UNCHANGED <<scan, process_nodes, pos>>
    ELSE /\ scan' = r.val.scan
         /\ process_nodes' = r.val.process_nodes
         /\ pos' = pos + 1
         /\ UNCHANGED <<pc, raised>>

\* for line in reader: one line under the current processing group
ProcRow ==
    /\ pc = "proc_rows"
    /\ pos <= Len(CurFile.lines)
    /\ ProcRowDone(proc_line(scan, process_nodes, CurFile.lines[pos], input_index,
                             output_index, processing_indices(htypes)[pi], header, hgroups))
    /\ UNCHANGED <<studies, header, hgroups, htypes, pi, input_index, output_index>>
    /\ UNCHANGED <<orchVars, nodeVars>>

\* the reader is exhausted: study.process_nodes = process_nodes; next group
ProcGroupEnd ==
    /\ pc = "proc_rows"
    /\ pos > Len(CurFile.lines)
    /\ IF target = "study"
       THEN study_process_nodes' = process_nodes /\ UNCHANGED assay_process_nodes
       ELSE assay_process_nodes' = process_nodes /\ UNCHANGED study_process_nodes
    /\ pi' = pi + 1
    /\ pc' = "groups"
    /\ UNCHANGED <<studies, raised, si, ai, target, final_studies, final_assays, study_nodes,
                   assay_nodes, header, hgroups, htypes, pos, input_index, output_index,
                   scan, process_nodes>>
    /\ UNCHANGED nodeVars

\* _get_process_nodes: every processing group was visited
GetProcessNodesReturn ==
    /\ pc = "groups"
    /\ pi > Len(processing_indices(htypes))
    /\ pc' = "processed"
    /\ UNCHANGED <<studies, raised, header, hgroups, htypes, pos>>
    /\ UNCHANGED <<orchVars, nodeVars, procVars>>

\* an assay of the final tree
AssayRecord(aid, nds, pnodes) == [aid |-> aid, nodes |-> nds, process_nodes |-> pnodes]

\* a study of the final tree
StudyRecord(sid, nds, pnodes, assays) ==
    [sid |-> sid, nodes |-> nds, process_nodes |-> pnodes, assays |-> assays]

\* parse: final_assays.append(cur_assay)
AssayProcessed ==
    /\ pc = "processed"
    /\ target = "assay"
    /\ final_assays' = Append(final_assays, AssayRecord(ai, assay_nodes, assay_process_nodes))
    /\ ai' = ai + 1
    /\ pc' = "assay_loop"
    /\ UNCHANGED <<studies, raised, si, target, final_studies, study_nodes,
                   study_process_nodes, assay_nodes, assay_process_nodes, header, hgroups,
                   htypes, pos>>
    /\ UNCHANGED <<nodeVars, procVars>>

\* parse: final_studies.append(study)
StudyProcessed ==
    /\ pc = "processed"
    /\ target = "study"
    /\ final_studies' =
          Append(final_studies,
                 StudyRecord(si, study_nodes, study_process_nodes, final_assays))
    /\ si' = si + 1
    /\ pc' = "study_loop"
    /\ UNCHANGED <<studies, raised, ai, target, final_assays, study_nodes,
                   study_process_nodes, assay_nodes, assay_process_nodes, header, hgroups,
                   htypes, pos>>
    /\ UNCHANGED <<nodeVars, procVars>>

Next ==
    \/ StudyNext
    \/ ParseReturn
    \/ ParseStudyMissing
    \/ ParseStudyOpen
    \/ AnchorAbsent
    \/ AnchorSeek
    \/ NodeRow
    \/ NodeRowsEnd
    \/ ParseStudyReturn
    \/ StudyParsed
    \/ AssayParsed
    \/ AssayNext
    \/ AssaysEnd
    \/ GetProcessNodesMissing
    \/ GetProcessNodesOpen
    \/ ProcGroupBreak
    \/ ProcGroupStart
    \/ ProcRow
    \/ ProcGroupEnd
    \/ GetProcessNodesReturn
    \/ AssayProcessed
    \/ StudyProcessed

Spec == Init /\ [][Next]_vars

(* ---------------- views of the state, and the properties ---------------- *)
\* the parser is inside _parse_study, or has just returned from it, on a file
\* that exists: header, hgroups, htypes and nodes are those of CurFile
InParseStudy == pc \in {"anchors", "rows", "parsed"} /\ CurFile.exists

\* _get_process_nodes has just returned on a file that exists
AfterProcessNodes == pc = "processed" /\ CurFile.exists

\* the nodes and the process nodes of the record that owns CurFile
OwnerNodes == IF target = "study" THEN study_nodes ELSE assay_nodes

OwnerProcessNodes == IF target = "study" THEN study_process_nodes ELSE assay_process_nodes

\* the data lines of CurFile (every line but the header row)
DataLines == 2..Len(CurFile.lines)

\* the anchors of CurFile that its header holds
AnchorsPresent == Range(NodeTypes) \cap Range(header)

\* the cell of line p in the column of anchor t (the line is long enough)
AnchorCell(p, t) == CurFile.lines[p][IndexOf(header, t)]

\* line p names an entity of type t: the cell is there, is not empty and is
\* not a header string
NamesEntity(p, t) ==
    /\ IndexOf(header, t) <= Len(CurFile.lines[p])
    /\ AnchorCell(p, t) # <<>>
    /\ AnchorCell(p, t) \notin Range(header)

\* the entities (type, name) the data lines of CurFile name
Entities ==
    {<<t, AnchorCell(p, t)>> : <<p, t>> \in {x \in DataLines \X AnchorsPresent : NamesEntity(x[1], x[2])}}

\* the keys of a node dict under which a node of this type and name is stored
KeysOf(map, e) == {k \in DOMAIN map : map[k].ntype = e[1] /\ map[k].name = e[2]}

\* the first data line that names entity e
FirstLineOf(e) ==
    CHOOSE p \in DataLines :
        /\ NamesEntity(p, e[1]) /\ AnchorCell(p, e[1]) = e[2]
        /\ \A q \in DataLines :
              (NamesEntity(q, e[1]) /\ AnchorCell(q, e[1]) = e[2]) => p <= q

\* the values one line gives: per representative header, the list of values
ValuesOfLine(p) ==
    LET md == line_keyvals(CurFile.lines[p], header, hgroups, htypes, EmptyDict).val
    IN  [h \in DOMAIN md |-> SetToList(md[h])]

\* C1: every entity the file names has an entry of its own in the node map:
\* distinct (type, name) pairs get distinct keys, and the entry under a pair's
\* key is the node of that type and name.
C1_TypeQualifiedKeys ==
    (pc = "parsed" /\ CurFile.exists) =>
        /\ \A e1, e2 \in Entities :
              e1 # e2 => build_node_index(e1[1], e1[2]) # build_node_index(e2[1], e2[2])
        /\ \A e \in Entities : KeysOf(source_data.map, e) = {build_node_index(e[1], e[2])}

FoldedGroups ==
    {g \in 1..Len(hgroups) :
        /\ htypes[g] = "attribute"
        /\ Len(hgroups[g]) > 1
        /\ "[" \in Range(header[hgroups[g][1]])}

\* the header of the first column of group g
Representative(g) == header[hgroups[g][1]]

\* the field names of the record of group g: the cleaned names of its columns
FieldNames(g) == [j \in 1..Len(hgroups[g]) |-> sub_nonword(clean_header(header[hgroups[g][j]]).val)]

\* the cells of line p in the columns of group g
GroupCells(p, g) == [j \in 1..Len(hgroups[g]) |-> CurFile.lines[p][hgroups[g][j]]]

\* line p has a cell in every column of group g
CoversGroup(p, g) == \A j \in 1..Len(hgroups[g]) : hgroups[g][j] <= Len(CurFile.lines[p])

InputColumn == hgroups[input_index][1]

OutputColumn == hgroups[output_index][1]

ProcessingColumn == hgroups[processing_indices(htypes)[pi]][1]

\* the identities of the input and output cells of the line at pos
RowInput == build_node_index(header[InputColumn], CurFile.lines[pos][InputColumn])

RowOutput == build_node_index(header[OutputColumn], CurFile.lines[pos][OutputColumn])

\* the step handles the line at pos, which has an input or an output cell
RowLinked ==
    /\ pc = "proc_rows" /\ pos <= Len(CurFile.lines) /\ pos' = pos + 1
    /\ line_number_test(scan)
    /\ ~(CurFile.lines[pos][InputColumn] = <<>> /\ CurFile.lines[pos][OutputColumn] = <<>>)

\* the step attaches the identities of the line at pos to process node n and
\* touches no other process node
AttachedTo(n) ==
    /\ n \in DOMAIN process_nodes'
    /\ RowInput \in Range(process_nodes'[n].inputs)
    /\ RowOutput \in Range(process_nodes'[n].outputs)
    /\ \A m \in DOMAIN process_nodes : m # n => process_nodes'[m] = process_nodes[m]

\* the name a new process node of the line at pos gets
NewName == CurFile.lines[pos][ProcessingColumn] \o IntToStr(scan.process_number)

\* what the rows (S1,P1,D1), (S1,P1,D2), (S2,P1,D2) come to
FanExample ==
    (AfterProcessNodes /\ CurFile = FanFile) =>
        /\ Cardinality(DOMAIN OwnerProcessNodes) = 1
        /\ \A n \in DOMAIN OwnerProcessNodes :
              /\ Len(OwnerProcessNodes[n].inputs) = 2
              /\ Len(OwnerProcessNodes[n].outputs) = 2

\* C4: a line of a processing group joins the process node its input identity
\* already has, else the one its output identity already has, and only
\* otherwise a process node that is new, named by the processing cell and the
\* running process number; the three example rows end in one process node
\* with two inputs and two outputs.
C4_ReuseBeforeMint ==
    /\ []FanExample
    /\ [][RowLinked =>
            IF RowInput \in DOMAIN scan.input_process_map
            THEN AttachedTo(scan.input_process_map[RowInput])
            ELSE IF RowOutput \in DOMAIN scan.output_process_map
            THEN AttachedTo(scan.output_process_map[RowOutput])
            ELSE NewName \notin DOMAIN process_nodes /\ AttachedTo(NewName)]_vars

\* the processing groups and the node groups of CurFile
ProcessingGroups == {g \in 1..Len(htypes) : htypes[g] = "processing"}

NodeGroups == {g \in 1..Len(htypes) : htypes[g] \in {"node", "node_assay"}}

\* group g has no node group to its left, or none to its right
LacksNeighbour(g) ==
    \/ ~\E n \in NodeGroups : n < g
    \/ ~\E n \in NodeGroups : n > g

\* the first processing group of CurFile
FirstProcessingGroup == CHOOSE g \in ProcessingGroups : \A h \in ProcessingGroups : g <= h

\* a data line has an input or an output cell for the first processing group
FirstGroupHasRows ==
    \E p \in DataLines : \E c \in 1..Len(CurFile.lines[p]) :
        /\ CurFile.lines[p][c] # <<>>
        /\ \E n \in NodeGroups :
              /\ c = hgroups[n][1]
              /\ \/ n < FirstProcessingGroup /\ \A m \in NodeGroups : m < FirstProcessingGroup => m <= n
                 \/ n > FirstProcessingGroup /\ \A m \in NodeGroups : m > FirstProcessingGroup => n <= m

\* the node map of the owner of CurFile is built: every entity of the file is keyed
NodesBuilt ==
    /\ ~OwnerNodes.none
    /\ \A e \in Entities : build_node_index(e[1], e[2]) \in DOMAIN OwnerNodes.map

\* C5 (as the spec states it): a file with a processing group that lacks a
\* node column on one side ends with an empty process node map, no error, and
\* its node map built.
C5_AnyMissingNeighbourEmpty ==
    (AfterProcessNodes /\ \E g \in ProcessingGroups : LacksNeighbour(g)) =>
        OwnerProcessNodes = EmptyDict /\ raised = "" /\ NodesBuilt

\* C5 (amended): the first processing group decides. If it lacks a node column
\* on one side the process node map is empty; if it has both and a data line
\* has a cell for it the map is not empty, whatever the later groups lack. No
\* error either way, and the node map is built.
C5_FirstGroupDecides ==
    (AfterProcessNodes /\ ProcessingGroups # {}) =>
        /\ LacksNeighbour(FirstProcessingGroup) => OwnerProcessNodes = EmptyDict
        /\ (~LacksNeighbour(FirstProcessingGroup) /\ FirstGroupHasRows)
              => OwnerProcessNodes # EmptyDict
        /\ raised = ""
        /\ NodesBuilt

\* C5 witness: a file whose first processing group has no node column to its
\* left, with data lines and nodes, ends with no process nodes
C5_Witness ==
    /\ AfterProcessNodes /\ ProcessingGroups # {}
    /\ ~\E n \in NodeGroups : n < FirstProcessingGroup
    /\ DataLines # {}
    /\ DOMAIN OwnerNodes.map # {}
    /\ OwnerProcessNodes = EmptyDict
    /\ raised = ""

\* a file yields nodes: some line has, in the column of an anchor of the
\* normalized header, a cell that is neither empty nor a header string
YieldsNodes(file, anchors) ==
    /\ file.exists
    /\ Len(file.lines) > 0
    /\ \E p \in 1..Len(file.lines) : \E t \in Range(anchors) \cap Range(swap_synonyms(file.lines[1])) :
          /\ IndexOf(swap_synonyms(file.lines[1]), t) <= Len(file.lines[p])
          /\ file.lines[p][IndexOf(swap_synonyms(file.lines[1]), t)] # <<>>
          /\ file.lines[p][IndexOf(swap_synonyms(file.lines[1]), t)]
                 \notin Range(swap_synonyms(file.lines[1]))

\* the studies of the record whose file yields nodes, in declaration order
StudiesWithNodes ==
    SelectSeq([i \in 1..Len(studies) |-> i],
              LAMBDA i : YieldsNodes(studies[i].file, StudyAnchors))

\* the assays of study s whose file yields nodes, in declaration order
AssaysWithNodes(s) ==
    SelectSeq([i \in 1..Len(studies[s].assays) |-> i],
              LAMBDA i : YieldsNodes(studies[s].assays[i], AssayAnchors))

\* C6: for a study file that does not exist _parse_study returns None (not an
\* empty dict) and nothing is raised; the final list holds, in declaration
\* order, exactly the studies whose file yields nodes, so none whose file is
\* absent, and each with its nodes.
C6_AbsentStudyDropped ==
    /\ (pc = "parsed" /\ ~CurFile.exists) => (source_data = NoneResult /\ raised = "")
    /\ (pc = "parsed" /\ CurFile.exists) => ~source_data.none
    /\ pc = "done" =>
          /\ [j \in 1..Len(final_studies) |-> final_studies[j].sid] = StudiesWithNodes
          /\ \A j \in 1..Len(final_studies) :
                /\ studies[final_studies[j].sid].file.exists
                /\ ~final_studies[j].nodes.none
                /\ DOMAIN final_studies[j].nodes.map # {}

\* C6 witness: parse is over; the file of the first study of two is absent,
\* that of the second yields nodes, and the final list is the second alone
C6_Witness ==
    /\ pc = "done" /\ raised = ""
    /\ Len(studies) = 2
    /\ ~studies[1].file.exists
    /\ YieldsNodes(studies[2].file, StudyAnchors)
    /\ Len(final_studies) = 1
    /\ final_studies[1].sid = 2

\* C7: for every study of the final tree the final assays are, in order,
\* exactly the assays whose file yields nodes, and each has a non-empty node
\* mapping.
C7_EmptyAssaysDropped ==
    pc = "done" =>
        \A j \in 1..Len(final_studies) :
            /\ [a \in 1..Len(final_studies[j].assays) |-> final_studies[j].assays[a].aid]
                   = AssaysWithNodes(final_studies[j].sid)
            /\ \A a \in 1..Len(final_studies[j].assays) :
                  /\ ~final_studies[j].assays[a].nodes.none
                  /\ DOMAIN final_studies[j].assays[a].nodes.map # {}

\* parse was left by an exception raised while a scan read a data line of
\* CurFile that has fewer cells than the header
RaisedOnShortRow ==
    /\ pc = "raised"
    /\ CurFile.exists
    /\ Len(CurFile.lines) > 0
    /\ header = swap_synonyms(CurFile.lines[1])
    /\ pos \in DataLines
    /\ Len(CurFile.lines[pos]) < Len(header)

\* C8: no scan raises an error on a data line with fewer cells than the
\* header, a line without any cell included.
C8_ShortRowsTolerated == ~RaisedOnShortRow

\* C9: no node of a file is named by a cell of the file's own header row,
\* synonyms included, and no node has an empty name.
C9_HeaderRowSkipped ==
    InParseStudy =>
        \A k \in DOMAIN nodes :
            /\ nodes[k].name \notin Range(CurFile.lines[1])
            /\ nodes[k].name # <<>>

\* the nearest node group to the left and to the right of group g
LeftNeighbour(g) == CHOOSE n \in NodeGroups : n < g /\ \A m \in NodeGroups : m < g => m <= n

RightNeighbour(g) == CHOOSE n \in NodeGroups : n > g /\ \A m \in NodeGroups : m > g => n <= m

\* the identity line p gives in the first column of node group n
IdentityAt(p, n) == build_node_index(header[hgroups[n][1]], CurFile.lines[p][hgroups[n][1]])

\* line p has the cells of node groups n and m, and not both are empty
LinksGroups(p, n, m) ==
    /\ hgroups[n][1] <= Len(CurFile.lines[p])
    /\ hgroups[m][1] <= Len(CurFile.lines[p])
    /\ ~(CurFile.lines[p][hgroups[n][1]] = <<>> /\ CurFile.lines[p][hgroups[m][1]] = <<>>)

\* C10: in a file whose processing groups each have a node group on both
\* sides, for each processing group and each non-blank data line some process
\* node of the resulting map has the line's left identity among its inputs and
\* its right identity among its outputs.
C10_EveryGroupLinked ==
    (AfterProcessNodes /\ \A g \in ProcessingGroups : ~LacksNeighbour(g)) =>
        \A g \in ProcessingGroups : \A p \in DataLines :
            LinksGroups(p, LeftNeighbour(g), RightNeighbour(g)) =>
                \E n \in DOMAIN OwnerProcessNodes :
                    /\ IdentityAt(p, LeftNeighbour(g)) \in Range(OwnerProcessNodes[n].inputs)
                    /\ IdentityAt(p, RightNeighbour(g)) \in Range(OwnerProcessNodes[n].outputs)


\* one more line of a scan that has no line_number test: the body of the loop
\* is run on every line
unguarded_line(prev, line) ==
    IF prev.raised # "" THEN prev
    ELSE proc_cells(prev.val.scan, prev.val.process_nodes, line, InputColumn, OutputColumn,
                    ProcessingColumn, header)

\* the scan of the current processing group without the line_number test, run
\* on the data lines of CurFile up to line k
UnguardedScan(k) ==
    LET F[j \in 1..k] ==
            IF j = 1 THEN Ok([scan |-> ScanStart, process_nodes |-> EmptyDict])
            ELSE unguarded_line(F[j - 1], CurFile.lines[j])
    IN  F[k]

\* C11: whenever the scan of a processing group is about to read a line,
\* line_number >= max_number holds, so no line is passed over; the process
\* nodes, both lookup tables and the process number built so far are those of
\* a scan that runs the loop body on every line read so far, in order, with
\* no such test.
C11_GuardNeverSkips ==
    pc = "proc_rows" =>
        /\ line_number_test(scan)
        /\ pi = 1 =>
              /\ UnguardedScan(pos - 1).raised = ""
              /\ process_nodes = UnguardedScan(pos - 1).val.process_nodes
              /\ scan.input_process_map = UnguardedScan(pos - 1).val.scan.input_process_map
              /\ scan.output_process_map = UnguardedScan(pos - 1).val.scan.output_process_map
              /\ scan.process_number = UnguardedScan(pos - 1).val.scan.process_number

\* C11 witness: the test is about to be made on a line with line_number equal
\* to max_number, after a line without input and output and after lines that
\* put three outputs on one process node
C11_Witness ==
    /\ pc = "proc_rows"
    /\ pos \in DataLines
    /\ scan.line_number = scan.max_number
    /\ scan.max_number >= 3
    /\ \E p \in 2..(pos - 1) :
          CurFile.lines[p][InputColumn] = <<>> /\ CurFile.lines[p][OutputColumn] = <<>>

\* the names the typing rule lists for one category only
ListedNode ==
    {SampleName, SourceName, ImageFile, RawDataFile, DerivedDataFile,
     AcquisitionParameterDataFile}

ListedNodeAssay == {ExtractName, LabeledExtractName, DataTransformationName, NormalizationName}

ListedAttribute == {Characteristics, FactorType, Comment, Label, MaterialType, FactorValue}

ListedProcessing == {ProtocolREF}

\* header h starts with none of the names of any category
MatchesNoSet(h) ==
    ~\E n \in ListedNode \cup ListedNodeAssay \cup ListedAttribute \cup ListedProcessing
              \cup {AssayName, ParameterValueTrait} : StartsWith(h, n)

\* C12: a group whose representative header is one of the names listed for a
\* single category has that category as its type, and a group whose
\* representative header matches no set has the type none.
C12_TypedByListedName ==
    InParseStudy =>
        \A g \in 1..Len(hgroups) :
            /\ Representative(g) \in ListedNode => htypes[g] = "node"
            /\ Representative(g) \in ListedNodeAssay => htypes[g] = "node_assay"
            /\ Representative(g) \in ListedAttribute => htypes[g] = "attribute"
            /\ Representative(g) \in ListedProcessing => htypes[g] = "processing"
            /\ MatchesNoSet(Representative(g)) => htypes[g] = "None"

\* the elements of a list are pairwise different
NoDuplicate(s) == \A i, j \in 1..Len(s) : i # j => s[i] # s[j]

\* no process node lists an identity twice among its inputs or its outputs
NoDuplicateIdentity ==
    \A n \in DOMAIN process_nodes :
        NoDuplicate(process_nodes[n].inputs) /\ NoDuplicate(process_nodes[n].outputs)

\* no identity is among the inputs of two process nodes
InputsDisjoint ==
    \A n, m \in DOMAIN process_nodes :
        n # m => Range(process_nodes[n].inputs) \cap Range(process_nodes[m].inputs) = {}

\* no identity is among the outputs of two process nodes
OutputsDisjoint ==
    \A n, m \in DOMAIN process_nodes :
        n # m => Range(process_nodes[n].outputs) \cap Range(process_nodes[m].outputs) = {}

\* C13 (as the spec implies it): after any lines of the scan no identity is
\* among the inputs of two process nodes, none is among the outputs of two
\* process nodes, and no process node lists an identity twice.
C13_NeverOverlap == InputsDisjoint /\ OutputsDisjoint /\ NoDuplicateIdentity

\* C13 (amended): after any lines of the scan no identity is among the inputs
\* of two process nodes and no process node lists an identity twice among its
\* inputs or among its outputs; the outputs of two process nodes may share an
\* identity.
C13_InputsNeverOverlap == InputsDisjoint /\ NoDuplicateIdentity

\* C13 witness: the scan has built two process nodes, each with an input of
\* its own, that share an output, and one of them has two outputs
C13_Witness ==
    /\ pc = "proc_rows"
    /\ \E n, m \in DOMAIN process_nodes :
          /\ n # m
          /\ Range(process_nodes[n].outputs) \cap Range(process_nodes[m].outputs) # {}
          /\ Range(process_nodes[n].inputs) \cap Range(process_nodes[m].inputs) = {}
          /\ Len(process_nodes[n].outputs) = 2
=============================================================================
